---- MODULE Spec2Model ----
(***************************************************************************)
(* State-machine model of src/app.py (GenericCobolIDE): the CobolIDE main  *)
(* window with its single editor buffer, the file handlers (new, open,     *)
(* save, save as), the close event and the compile handler, and the        *)
(* CobolHighlighter that formats the lines of the editor document.         *)
(*                                                                         *)
(* One action models one complete handler run.  The answers the user gives *)
(* to the dialogs a handler shows and the outcomes of the file and process *)
(* operations it performs are the action's inputs.  The variables op,      *)
(* reply, boxes, dialogs, io, spawned and close_event record what the most *)
(* recent handler run did, so that its effects can be stated.              *)
(*                                                                         *)
(* The editor document is part of the window: a handler that clears or     *)
(* replaces the text (new, open) and every edit leaves the blocks of the   *)
(* document highlighted.  Spec and SpecCompile explore the handlers over   *)
(* whole-buffer edits; SpecHighlight explores the keystrokes typed into    *)
(* the editor, and files opened over what was typed.                       *)
(***************************************************************************)
EXTENDS Integers, Sequences, FiniteSets, TLC

VARIABLES
    current_file,   \* CobolIDE.current_file: a path, or None
    text,           \* self.editor.toPlainText(): a sequence of characters
    modified,       \* self.editor.document().isModified()
    clean_text,     \* the text of the document at the state of its undo
                    \* history that counts as unmodified
    title,          \* the window title
    status,         \* the status bar message the last handler run showed
    visible,        \* the main window is open (no close event accepted yet)
    fs,             \* the file system: path -> the text open(path).read()
                    \* returns, or NoFile
    platform,       \* sys.platform
    environ,        \* os.environ: variable name -> value, or None when unset
    op,             \* the handler that ran last
    reply,          \* the answer given to its Save/Discard/Cancel prompt
    boxes,          \* the message boxes it showed, in order
    dialogs,        \* the file dialogs it showed, with the user's selection
    io,             \* the open() calls it made, in order, with their outcome
    spawned,        \* the subprocess.run calls it made (argv and env)
    close_event,    \* what closeEvent did with the event
    saved_as,       \* history: the path of the last successful Save As that
                    \* only edits, undos and saves have followed, else None
    hl_text,        \* the blocks of the editor document: the text of each
    hl_formats,     \* the format of each character of each block
    hl_state,       \* the block state of each block
    hl_calls        \* the setFormat calls of the last highlightBlock run on
                    \* each block

\* The variables of the window and those of the highlighted document.
winvars == <<current_file, text, modified, clean_text, title, status,
             visible, fs, platform, environ, op, reply, boxes, dialogs, io,
             spawned, close_event, saved_as>>
hlvars == <<hl_text, hl_formats, hl_state, hl_calls>>

vars == <<winvars, hlvars>>

session == <<current_file, text, modified>>

(***************************************************************************)
(* Bounds of the model.                                                    *)
(***************************************************************************)
MaxPaths == 2
MaxTexts == 1
\* The largest document that is typed into, in characters.
MaxDocLen == 4

(***************************************************************************)
(* Values.                                                                 *)
(***************************************************************************)
\* Python's None (Optional[str], Optional[bool], an unset environment variable).
None == "<None>"
\* A path with no file behind it (no text is this sequence).
NoFile == <<"<NoFile>">>

SrcDir == "/src/"
FileNames == {"prog" \o ToString(i) \o ".cbl" : i \in 1..MaxPaths}
Paths == {SrcDir \o n : n \in FileNames}
\* The texts of the model: the empty one, and programs of two lines.
Program(i) == <<"I", "F", " ", ToString(i), "\n", "*", ">">>
Contents == {<<>>} \cup {Program(i) : i \in 1..MaxTexts}

\* The output path chosen in the "Compile to Executable" dialog.
ExePaths == {"/out/prog.exe"}

\* Python truthiness of an Optional[str] / Optional[bool] value: `not x`.
PyNot(x) == x = None \/ x = "" \/ x = "False"

\* os.path.basename over the paths of the model.
Basename(p) == CHOOSE n \in FileNames : p = SrcDir \o n

(***************************************************************************)
(* The syntax highlighter.  A line (the text of one block) is a sequence   *)
(* of characters; offsets are counted from 0 as capturedStart() does.      *)
(***************************************************************************)
\* The keywords of CobolHighlighter.__init__, in the order of the list.
Keywords ==
    <<<<"A", "C", "C", "E", "P", "T">>,
      <<"A", "D", "D">>,
      <<"C", "A", "L", "L">>,
      <<"C", "A", "N", "C", "E", "L">>,
      <<"C", "O", "M", "P", "U", "T", "E">>,
      <<"C", "O", "N", "T", "I", "N", "U", "E">>,
      <<"D", "E", "L", "E", "T", "E">>,
      <<"D", "I", "S", "P", "L", "A", "Y">>,
      <<"D", "I", "V", "I", "D", "E">>,
      <<"E", "L", "S", "E">>,
      <<"E", "N", "D", "-", "C", "A", "L", "L">>,
      <<"E", "N", "D", "-", "I", "F">>,
      <<"E", "V", "A", "L", "U", "A", "T", "E">>,
      <<"G", "O">>,
      <<"I", "F">>,
      <<"I", "N", "I", "T", "I", "A", "L", "I", "Z", "E">>,
      <<"I", "N", "S", "P", "E", "C", "T">>,
      <<"M", "O", "V", "E">>,
      <<"M", "U", "L", "T", "I", "P", "L", "Y">>,
      <<"O", "P", "E", "N">>,
      <<"P", "E", "R", "F", "O", "R", "M">>,
      <<"R", "E", "A", "D">>,
      <<"R", "E", "P", "L", "A", "C", "E">>,
      <<"R", "E", "T", "U", "R", "N">>,
      <<"R", "E", "W", "R", "I", "T", "E">>,
      <<"S", "E", "A", "R", "C", "H">>,
      <<"S", "T", "O", "P">>,
      <<"S", "T", "R", "I", "N", "G">>,
      <<"S", "U", "B", "T", "R", "A", "C", "T">>,
      <<"U", "N", "S", "T", "R", "I", "N", "G">>,
      <<"W", "R", "I", "T", "E">>>>

UpperLetters ==
    {"A", "B", "C", "D", "E", "F", "G", "H", "I", "J", "K", "L", "M",
     "N", "O", "P", "Q", "R", "S", "T", "U", "V", "W", "X", "Y", "Z"}
LowerLetters ==
    {"a", "b", "c", "d", "e", "f", "g", "h", "i", "j", "k", "l", "m",
     "n", "o", "p", "q", "r", "s", "t", "u", "v", "w", "x", "y", "z"}
Digits == {"0", "1", "2", "3", "4", "5", "6", "7", "8", "9"}

\* The characters \w matches, and those \s matches.
WordChars == UpperLetters \cup LowerLetters \cup Digits \cup {"_"}
\* U+000B, the vertical tab.
VerticalTab == "<U+000B>"
WhiteSpace == {" ", "\t", "\n", VerticalTab, "\f", "\r"}

\* \b at offset p of t: exactly one of the characters before and after the
\* offset is a word character (the ends of the line count as non-word).
WordBoundary(t, p) ==
    LET before == p >= 1 /\ t[p] \in WordChars
        after == p < Len(t) /\ t[p + 1] \in WordChars
    IN  before # after

\* The patterns of the rules: r'\bWORD\b', r'".*?"' and r"'.*?'", and
\* r'^\s*\*>.*'.
WordPattern(word) == [kind |-> "word", word |-> word, quote |-> ""]
QuotedPattern(q) == [kind |-> "quoted", word |-> <<>>, quote |-> q]
CommentPattern == [kind |-> "comment", word |-> <<>>, quote |-> ""]

\* The number of whitespace characters t has from offset p on.
RECURSIVE LeadingSpace(_, _)
LeadingSpace(t, p) ==
    IF p < Len(t) /\ t[p + 1] \in WhiteSpace
    THEN 1 + LeadingSpace(t, p + 1)
    ELSE 0

\* The length of the match of a pattern that starts at offset s of t, or -1
\* when the pattern does not match there.
\* r'\bWORD\b': the word, with a word boundary on either side.
WordMatchAt(word, t, s) ==
    LET n == Len(word) IN
    IF /\ s + n <= Len(t)
       /\ SubSeq(t, s + 1, s + n) = word
       /\ WordBoundary(t, s)
       /\ WordBoundary(t, s + n)
    THEN n ELSE -1

\* A literal pattern that is greedy, r'".*"'.
QuotedMatchAt_Greedy(q, t, s) ==
    IF /\ s < Len(t)
       /\ t[s + 1] = q
       /\ \E j \in (s + 2)..Len(t) : t[j] = q
    THEN (CHOOSE j \in (s + 2)..Len(t) :
             /\ t[j] = q
             /\ \A k \in (j + 1)..Len(t) : t[k] # q) - s
    ELSE -1

\* r'".*?"' and r"'.*?'": from a quote to the nearest quote after it.
QuotedMatchAt(q, t, s) ==
    IF /\ s < Len(t)
       /\ t[s + 1] = q
       /\ \E j \in (s + 2)..Len(t) : t[j] = q
    THEN (CHOOSE j \in (s + 2)..Len(t) :
             /\ t[j] = q
             /\ \A k \in (s + 2)..(j - 1) : t[k] # q) - s
    ELSE -1

\* A comment pattern that is not anchored, r'\*>.*'.
CommentMatchAt_Unanchored(t, s) ==
    IF s + 2 <= Len(t) /\ t[s + 1] = "*" /\ t[s + 2] = ">"
    THEN Len(t) - s ELSE -1

\* r'^\s*\*>.*': at the start of the line only, whitespace, the marker and
\* the rest of the line.
CommentMatchAt(t, s) ==
    LET m == LeadingSpace(t, 0) IN
    IF /\ s = 0
       /\ m + 2 <= Len(t)
       /\ t[m + 1] = "*"
       /\ t[m + 2] = ">"
    THEN Len(t) ELSE -1

MatchAt(pat, t, s) ==
    IF pat.kind = "word" THEN WordMatchAt(pat.word, t, s)
    ELSE IF pat.kind = "quoted" THEN QuotedMatchAt(pat.quote, t, s)
    ELSE CommentMatchAt(t, s)

\* QRegularExpression.globalMatch(text) from offset `from` on: the matches
\* from left to right, each search starting where the last match ended.
RECURSIVE GlobalMatchFrom(_, _, _)
GlobalMatchFrom(pat, t, from) ==
    IF from > Len(t) THEN <<>>
    ELSE LET n == MatchAt(pat, t, from) IN
         IF n < 0 THEN GlobalMatchFrom(pat, t, from + 1)
         ELSE <<[start |-> from, length |-> n]>>
              \o GlobalMatchFrom(pat, t, IF n = 0 THEN from + 1 ELSE from + n)

\* QRegularExpression.globalMatch(text).  A keyword pattern matches nowhere
\* in a text that lacks the keyword's first letter.
GlobalMatch(pat, t) ==
    IF pat.kind = "word" /\ \A p \in 1..Len(t) : t[p] # pat.word[1]
    THEN <<>>
    ELSE GlobalMatchFrom(pat, t, 0)

\* The rules with the comment pattern appended first instead of last.
HighlightingRules_CommentFirst ==
    <<[pattern |-> CommentPattern, fmt |-> "comment"]>>
    \o [k \in 1..Len(Keywords) |->
           [pattern |-> WordPattern(Keywords[k]), fmt |-> "keyword"]]
    \o <<[pattern |-> QuotedPattern("\""), fmt |-> "string"],
         [pattern |-> QuotedPattern("'"), fmt |-> "string"]>>

\* self.highlighting_rules as built by CobolHighlighter.__init__: the
\* keywords, the two string literal patterns, the comment pattern.
HighlightingRules ==
    [k \in 1..Len(Keywords) |->
        [pattern |-> WordPattern(Keywords[k]), fmt |-> "keyword"]]
    \o <<[pattern |-> QuotedPattern("\""), fmt |-> "string"],
         [pattern |-> QuotedPattern("'"), fmt |-> "string"]>>
    \o <<[pattern |-> CommentPattern, fmt |-> "comment"]>>

\* The rules whose pattern matches somewhere in t: the others make no
\* setFormat call.
MatchingRules(rules, t) ==
    {r \in 1..Len(rules) : GlobalMatch(rules[r].pattern, t) # <<>>}

\* The setFormat calls highlightBlock makes on text t for the rules in set
\* rs, in the order of the list: for each rule, one call per match.
RECURSIVE SetFormatCalls(_, _, _)
SetFormatCalls(rules, t, rs) ==
    IF rs = {} THEN <<>>
    ELSE LET r == CHOOSE x \in rs : \A y \in rs : x <= y
             ms == GlobalMatch(rules[r].pattern, t)
         IN  [k \in 1..Len(ms) |->
                 [rule |-> r, start |-> ms[k].start, length |-> ms[k].length,
                  fmt |-> rules[r].fmt]]
             \o SetFormatCalls(rules, t, rs \ {r})

\* A setFormat that leaves characters that have a format already as they are.
SetFormat_KeepsFirst(f, start, length, fmt) ==
    [p \in 1..Len(f) |->
        IF start < p /\ p <= start + length /\ f[p] = "none"
        THEN fmt ELSE f[p]]

\* QSyntaxHighlighter.setFormat(start, length, fmt) on the formats f of the
\* characters of the block.
SetFormat(f, start, length, fmt) ==
    [p \in 1..Len(f) |->
        IF start < p /\ p <= start + length THEN fmt ELSE f[p]]

\* The formats after the first n of the calls, starting from none.
RECURSIVE ApplyCalls(_, _, _)
ApplyCalls(t, calls, n) ==
    IF n = 0 THEN [p \in 1..Len(t) |-> "none"]
    ELSE SetFormat(ApplyCalls(t, calls, n - 1),
                   calls[n].start, calls[n].length, calls[n].fmt)

\* The number of characters q in t.
CountChar(t, q) == Cardinality({p \in 1..Len(t) : t[p] = q})

\* A block state that tells whether the line ends inside a literal.
CurrentBlockState_OpenLiteral(t) ==
    IF CountChar(t, "\"") % 2 = 1 THEN 1 ELSE 0

\* The block state highlightBlock leaves: setCurrentBlockState(0).
CurrentBlockState(t) == 0

\* The highlighter object as highlightBlock finds it: its rules, and the
\* state of the block before the one being highlighted.
Highlighter(previous_state) ==
    [highlighting_rules |-> HighlightingRules,
     previousBlockState |-> previous_state]

\* A highlightBlock that carries a literal over from the block before: a
\* line that follows one with an open literal is a literal up to its first
\* quote, or as a whole.
HighlightBlock_Carry(self, t) ==
    LET rules == self.highlighting_rules
        open == self.previousBlockState = 1
        calls == SetFormatCalls(rules, t, MatchingRules(rules, t))
        formats == ApplyCalls(t, calls, Len(calls))
    IN  [calls |-> calls,
         formats |-> IF open THEN [p \in 1..Len(t) |-> "string"] ELSE formats,
         state |-> IF open = (CountChar(t, "\"") % 2 = 0) THEN 1 ELSE 0]

\* CobolHighlighter.highlightBlock(self, text): the setFormat calls, the
\* formats of the characters they leave, and the block state.  (The calls
\* are worked out once, as the one element of a set.)
HighlightBlock(self, t) ==
    CHOOSE h \in
        {[calls |-> calls,
          formats |-> ApplyCalls(t, calls, Len(calls)),
          state |-> CurrentBlockState(t)] :
            calls \in {SetFormatCalls(self.highlighting_rules, t,
                           MatchingRules(self.highlighting_rules, t))}} : TRUE

(***************************************************************************)
(* The document of the editor and its highlighter.  A document is its      *)
(* blocks (lines): the text of each, the formats of its characters, its    *)
(* block state (-1 until the block has been highlighted) and the setFormat *)
(* calls of the last highlightBlock run on it.                             *)
(***************************************************************************)
Document ==
    [text |-> hl_text, formats |-> hl_formats, state |-> hl_state,
     calls |-> hl_calls]

\* A document of the given lines, none highlighted yet.
NewDocument(lines) ==
    [text |-> lines,
     formats |-> [i \in 1..Len(lines) |-> [p \in 1..Len(lines[i]) |-> "none"]],
     state |-> [i \in 1..Len(lines) |-> -1],
     calls |-> [i \in 1..Len(lines) |-> <<>>]]

\* QSyntaxHighlighter runs highlightBlock on block i, starting from blank
\* formats.
ReformatBlock(d, i) ==
    CHOOSE r \in
        {[d EXCEPT !.formats[i] = h.formats, !.calls[i] = h.calls,
                   !.state[i] = h.state] :
            h \in {HighlightBlock(
                      Highlighter(IF i = 1 THEN -1 ELSE d.state[i - 1]),
                      d.text[i])}} : TRUE

\* QSyntaxHighlighter reformats the changed blocks i..last, and goes on to
\* the next block for as long as the state of the block just done changed.
RECURSIVE ReformatBlocks(_, _, _, _)
ReformatBlocks(d, i, last, force) ==
    IF i > Len(d.text) \/ (i > last /\ ~force) THEN d
    ELSE CHOOSE r \in
             {ReformatBlocks(d1, i + 1, last, d1.state[i] # d.state[i]) :
                 d1 \in {ReformatBlock(d, i)}} : TRUE

InsertAt(q, k, x) == SubSeq(q, 1, k) \o <<x>> \o SubSeq(q, k + 1, Len(q))
RemoveAt(q, k) == SubSeq(q, 1, k - 1) \o SubSeq(q, k + 1, Len(q))

\* The user types character c after the first k characters of block i.
InsertChar(d, i, k, c) ==
    ReformatBlocks([d EXCEPT !.text[i] = InsertAt(@, k, c)], i, i, FALSE)

\* The user deletes character k of block i.
RemoveChar(d, i, k) ==
    ReformatBlocks([d EXCEPT !.text[i] = RemoveAt(@, k)], i, i, FALSE)

\* The user types Enter after the first k characters of block i: the rest of
\* the line becomes a new block.
SplitBlock(d, i, k) ==
    LET line == d.text[i]
        d1 == [text |-> InsertAt([d.text EXCEPT ![i] = SubSeq(line, 1, k)],
                                 i, SubSeq(line, k + 1, Len(line))),
               formats |-> InsertAt(d.formats, i, <<>>),
               state |-> InsertAt(d.state, i, -1),
               calls |-> InsertAt(d.calls, i, <<>>)]
    IN  ReformatBlocks(d1, i, i + 1, FALSE)

\* The user deletes the line break after block i: block i + 1 is appended
\* to it.
JoinBlocks(d, i) ==
    LET d1 == [text |-> RemoveAt([d.text EXCEPT ![i] = @ \o d.text[i + 1]],
                                 i + 1),
               formats |-> RemoveAt(d.formats, i + 1),
               state |-> RemoveAt(d.state, i + 1),
               calls |-> RemoveAt(d.calls, i + 1)]
    IN  ReformatBlocks(d1, i, i, FALSE)

\* QPlainTextEdit.setPlainText / clear: the document is replaced and all of
\* it highlighted.
SetPlainText(lines) ==
    ReformatBlocks(NewDocument(lines), 1, Len(lines), FALSE)

\* The blocks setPlainText makes of a text: the lines between its line
\* breaks.
RECURSIVE SplitLines(_)
SplitLines(content) ==
    LET breaks == {p \in 1..Len(content) : content[p] = "\n"} IN
    IF breaks = {} THEN <<content>>
    ELSE LET p == CHOOSE x \in breaks : \A y \in breaks : x <= y IN
         <<SubSeq(content, 1, p - 1)>>
         \o SplitLines(SubSeq(content, p + 1, Len(content)))

\* QPlainTextEdit.toPlainText: the blocks joined by line breaks.
RECURSIVE ToPlainText(_)
ToPlainText(lines) ==
    IF Len(lines) = 1 THEN lines[1]
    ELSE lines[1] \o <<"\n">> \o ToPlainText(Tail(lines))

\* The characters of a document, line breaks included.
RECURSIVE SumLen(_, _)
SumLen(lines, n) == IF n = 0 THEN 0 ELSE Len(lines[n]) + SumLen(lines, n - 1)
DocSize(lines) == SumLen(lines, Len(lines)) + Len(lines) - 1

(***************************************************************************)
(* The part of the window a handler run works on, with the record of what  *)
(* the run has done so far.                                                *)
(***************************************************************************)
World ==
    [current_file |-> current_file, text |-> text, modified |-> modified,
     clean_text |-> clean_text, document |-> Document,
     title |-> title, status |-> "", fs |-> fs,
     boxes |-> <<>>, dialogs |-> <<>>, io |-> <<>>, spawned |-> <<>>]

MessageBox(w, kind, ttl, msg) ==
    [w EXCEPT !.boxes = Append(@, [kind |-> kind, title |-> ttl, text |-> msg])]

FileDialog(w, ttl, selection) ==
    [w EXCEPT !.dialogs = Append(@, [title |-> ttl, selection |-> selection])]

ShowMessage(w, msg) == [w EXCEPT !.status = msg]

BaseTitle == "GNU Cobol IDE"

\* CobolIDE._update_window_title
UpdateWindowTitle(w) ==
    IF ~PyNot(w.current_file)
    THEN [w EXCEPT !.title = BaseTitle \o " - " \o Basename(w.current_file)]
    ELSE [w EXCEPT !.title = BaseTitle \o " - Untitled"]

\* CobolIDE._document_is_modified
DocumentIsModified(w) == w.modified

\* QPlainTextEdit.setPlainText(content): replaces the document, which is
\* highlighted, and resets its modified flag and its undo history.
EditorSetPlainText(w, content) ==
    [w EXCEPT !.document = SetPlainText(SplitLines(content)),
              !.text = ToPlainText(SplitLines(content)),
              !.modified = FALSE,
              !.clean_text = ToPlainText(SplitLines(content))]

\* QPlainTextEdit.clear(): the same with no text.
EditorClear(w) == EditorSetPlainText(w, <<>>)

\* QTextDocument.setModified(m): setModified(False) makes the present state
\* of the undo history the unmodified one.
SetModified(w, m) ==
    [w EXCEPT !.modified = m, !.clean_text = IF m THEN @ ELSE w.text]

\* An edit of the user that leaves document d: the document is modified.
EditDocument(w, d) ==
    [w EXCEPT !.document = d, !.text = ToPlainText(d.text), !.modified = TRUE]

\* The user steps through the undo history of the editor (Ctrl+Z, Ctrl+Y)
\* back to its unmodified state: the text of that state is back,
\* highlighted, and the document is unmodified again.
UndoEdits(w) ==
    [w EXCEPT !.document = SetPlainText(SplitLines(w.clean_text)),
              !.text = w.clean_text,
              !.modified = FALSE]

(***************************************************************************)
(* File operations.                                                        *)
(***************************************************************************)
\* Outcomes of open(path, "r") followed by read().
ReadOutcomes == {"ok", "error"}
\* Outcomes of open(path, "w") followed by write(): open() itself may raise
\* (the file is untouched), or the file is opened, hence truncated, and
\* write() raises.
WriteOutcomes == {"ok", "open_error", "write_error"}

\* str(e) of the exception a failed file operation raises.  The failures
\* of the model are a file that does not exist (ENOENT, raised by open(),
\* which names the file), a file that may not be opened (EACCES, the same)
\* and a device that is full (ENOSPC, raised by write(), which names none).
ErrorText(outcome, path) ==
    IF outcome = "missing"
    THEN "[Errno 2] No such file or directory: '" \o path \o "'"
    ELSE IF outcome = "write_error" THEN "[Errno 28] No space left on device"
    ELSE "[Errno 13] Permission denied: '" \o path \o "'"

\* The read succeeds only on an existing file.
ReadResult(w, file_path, r) ==
    IF r = "ok" /\ w.fs[file_path] # NoFile THEN "ok" ELSE "error"

\* CobolIDE._open_file
OpenFileReads(w, file_path, r) ==
    [w EXCEPT !.io = Append(@, [mode |-> "r", path |-> file_path,
                                result |-> ReadResult(w, file_path, r)])]

OpenFile(w, file_path, r) ==
    LET w1 == OpenFileReads(w, file_path, r) IN
    IF ReadResult(w, file_path, r) = "ok"
    THEN LET w2 == EditorSetPlainText(w1, w.fs[file_path])
             w3 == [w2 EXCEPT !.current_file = file_path]
             w4 == UpdateWindowTitle(w3)
             w5 == ShowMessage(w4, "File opened: " \o file_path)
         IN  SetModified(w5, FALSE)
    ELSE MessageBox(w1, "critical", "Error",
                    "Could not open file:\n"
                    \o ErrorText(IF w.fs[file_path] = NoFile
                                 THEN "missing" ELSE r, file_path))

\* _save_to_path with `self.current_file = file_path` ahead of the write.
SaveToPath_PathFirst(w, file_path, wo) ==
    LET w1 == [w EXCEPT !.io = Append(@, [mode |-> "w", path |-> file_path,
                                          result |-> wo]),
                        !.current_file = file_path]
    IN
    IF wo = "ok"
    THEN LET w2 == [w1 EXCEPT !.fs[file_path] = w.text]
             w4 == UpdateWindowTitle(w2)
             w5 == SetModified(w4, FALSE)
         IN  ShowMessage(w5, "File saved: " \o file_path)
    ELSE LET w2 == IF wo = "write_error"
                   THEN [w1 EXCEPT !.fs[file_path] = <<>>]
                   ELSE w1
         IN  MessageBox(w2, "critical", "Error",
                        "Could not save file:\n"
                        \o ErrorText(wo, file_path))

\* _save_to_path without `self.editor.document().setModified(False)`.
SaveToPath_KeepsModified(w, file_path, wo) ==
    LET w1 == [w EXCEPT !.io = Append(@, [mode |-> "w", path |-> file_path,
                                          result |-> wo])]
    IN
    IF wo = "ok"
    THEN LET w2 == [w1 EXCEPT !.fs[file_path] = w.text]
             w3 == [w2 EXCEPT !.current_file = file_path]
             w4 == UpdateWindowTitle(w3)
         IN  ShowMessage(w4, "File saved: " \o file_path)
    ELSE LET w2 == IF wo = "write_error"
                   THEN [w1 EXCEPT !.fs[file_path] = <<>>]
                   ELSE w1
         IN  MessageBox(w2, "critical", "Error",
                        "Could not save file:\n"
                        \o ErrorText(wo, file_path))

\* _save_to_path without `self.current_file = file_path`.
SaveToPath_KeepsPath(w, file_path, wo) ==
    LET w1 == [w EXCEPT !.io = Append(@, [mode |-> "w", path |-> file_path,
                                          result |-> wo])]
    IN
    IF wo = "ok"
    THEN LET w2 == [w1 EXCEPT !.fs[file_path] = w.text]
             w4 == UpdateWindowTitle(w2)
             w5 == SetModified(w4, FALSE)
         IN  ShowMessage(w5, "File saved: " \o file_path)
    ELSE LET w2 == IF wo = "write_error"
                   THEN [w1 EXCEPT !.fs[file_path] = <<>>]
                   ELSE w1
         IN  MessageBox(w2, "critical", "Error",
                        "Could not save file:\n"
                        \o ErrorText(wo, file_path))

\* CobolIDE._save_to_path
SaveToPath(w, file_path, wo) ==
    LET w1 == [w EXCEPT !.io = Append(@, [mode |-> "w", path |-> file_path,
                                          result |-> wo])]
    IN
    IF wo = "ok"
    THEN LET w2 == [w1 EXCEPT !.fs[file_path] = w.text]
             w3 == [w2 EXCEPT !.current_file = file_path]
             w4 == UpdateWindowTitle(w3)
             w5 == SetModified(w4, FALSE)
         IN  ShowMessage(w5, "File saved: " \o file_path)
    ELSE LET w2 == IF wo = "write_error"
                   THEN [w1 EXCEPT !.fs[file_path] = <<>>]
                   ELSE w1
         IN  MessageBox(w2, "critical", "Error",
                        "Could not save file:\n"
                        \o ErrorText(wo, file_path))

\* CobolIDE.handle_save_file_as
HandleSaveFileAs(w, sel, wo) ==
    LET w1 == FileDialog(w, "Save As", sel) IN
    IF ~PyNot(sel) THEN SaveToPath(w1, sel, wo) ELSE w1

\* handle_save_file asking for a path whether or not there is a current file.
HandleSaveFile_AlwaysAsks(w, sel, wo) == HandleSaveFileAs(w, sel, wo)

\* CobolIDE.handle_save_file
HandleSaveFile(w, sel, wo) ==
    IF PyNot(w.current_file)
    THEN HandleSaveFileAs(w, sel, wo)
    ELSE SaveToPath(w, w.current_file, wo)

(***************************************************************************)
(* The unsaved-changes prompt.                                             *)
(***************************************************************************)
Replies == {"Save", "Discard", "Cancel"}

\* _prompt_save_discard_cancel returning True for every reply but Discard.
PromptResult_CancelIsTrue(r) == IF r = "Discard" THEN "False" ELSE "True"

\* The value CobolIDE._prompt_save_discard_cancel returns for a reply.
PromptResult(r) ==
    IF r = "Save" THEN "True"
    ELSE IF r = "Discard" THEN "False"
    ELSE None

\* CobolIDE._prompt_save_discard_cancel: the window after the prompt (the
\* Save reply runs handle_save_file) and the value returned.
PromptSaveDiscardCancel(w, message, r, sel, wo) ==
    LET w1 == MessageBox(w, "warning", "Unsaved Changes", message) IN
    [w |-> IF r = "Save" THEN HandleSaveFile(w1, sel, wo) ELSE w1,
     result |-> PromptResult(r)]

\* The guard `if not self._prompt_save_discard_cancel(...): return` of
\* handle_new_file and handle_open_file.
PromptAborts(result) == PyNot(result)

\* CobolIDE.handle_new_file
HandleNewFile(w, r, sel, wo) ==
    LET pr == IF DocumentIsModified(w)
              THEN PromptSaveDiscardCancel(w,
                       "Do you want to save before creating a new file?",
                       r, sel, wo)
              ELSE [w |-> w, result |-> "True"]
    IN
    IF DocumentIsModified(w) /\ PromptAborts(pr.result)
    THEN pr.w
    ELSE LET w1 == EditorClear(pr.w)
             w2 == [w1 EXCEPT !.current_file = None]
             w3 == UpdateWindowTitle(w2)
         IN  ShowMessage(w3, "New file created")

\* CobolIDE.handle_open_file
HandleOpenFile(w, r, sel, wo, osel, ro) ==
    LET pr == IF DocumentIsModified(w)
              THEN PromptSaveDiscardCancel(w,
                       "Do you want to save before opening a new file?",
                       r, sel, wo)
              ELSE [w |-> w, result |-> "True"]
    IN
    IF DocumentIsModified(w) /\ PromptAborts(pr.result)
    THEN pr.w
    ELSE LET w1 == FileDialog(pr.w, "Open COBOL File", osel) IN
         IF ~PyNot(osel) THEN OpenFile(w1, osel, ro) ELSE w1

\* The guard `if result is None` of closeEvent.
CloseIgnores(result) == result = None

\* CobolIDE.closeEvent: the window after the prompt, and whether the event
\* is accepted.
CloseEvent(w, r, sel, wo) ==
    LET pr == IF DocumentIsModified(w)
              THEN PromptSaveDiscardCancel(w,
                       "Do you want to save your changes before exiting?",
                       r, sel, wo)
              ELSE [w |-> w, result |-> "True"]
    IN
    [w |-> pr.w,
     event |-> IF DocumentIsModified(w) /\ CloseIgnores(pr.result)
               THEN "ignored" ELSE "accepted"]

(***************************************************************************)
(* Compilation.                                                            *)
(***************************************************************************)
Platforms == {"win32", "darwin", "linux", "cygwin"}
\* What may follow a prefix tested by str.startswith in a platform name.
PlatformTails == {"", "32"}

\* str.startswith over the platform names of the model.
StartsWith(s, prefix) == \E t \in PlatformTails : s = prefix \o t

EnvNames == {"GNUBASE", "COBPATH", "PATH"}
GnubaseValues == {None, "", "/opt/gnucobol"}
CobpathValues == {None, "/opt/cobpath"}
PathValues == {None, "/usr/bin"}
Environs ==
    {e \in [EnvNames -> GnubaseValues \cup CobpathValues \cup PathValues] :
        /\ e["GNUBASE"] \in GnubaseValues
        /\ e["COBPATH"] \in CobpathValues
        /\ e["PATH"] \in PathValues}

\* os.environ.get(name) and env.get(name, default)
EnvGet(env, name, default) == IF env[name] = None THEN default ELSE env[name]

\* os.name, os.sep and os.pathsep of the interpreter running on a platform.
OsName(plat) == IF plat = "win32" THEN "nt" ELSE "posix"
Sep(plat) == IF OsName(plat) = "nt" THEN "\\" ELSE "/"
PathSep(plat) == IF OsName(plat) = "nt" THEN ";" ELSE ":"

\* The directory names the handler joins, none of which ends in a separator.
EndsWithSep(plat, a) ==
    \E h \in {"", "/", "/opt/gnucobol", "/usr/local", "C:\\GnuCOBOL"} :
        a = h \o Sep(plat) \/ a = h \o "/"

\* os.path.join(a, b) for a relative b
JoinPath(plat, a, b) ==
    IF EndsWithSep(plat, a) THEN a \o b ELSE a \o Sep(plat) \o b

DefaultWindows == "C:\\GnuCOBOL"
DefaultUnix == "/usr/local"

\* The resolution with `if gnubase is None` in place of `if not gnubase`.
ResolveGnubase_EmptyIsSet(plat, env) ==
    IF EnvGet(env, "GNUBASE", None) # None THEN env["GNUBASE"]
    ELSE IF StartsWith(plat, "win") THEN DefaultWindows
    ELSE IF StartsWith(plat, "darwin") \/ StartsWith(plat, "linux")
         THEN DefaultUnix
    ELSE None

\* The toolchain root of handle_compile_cobol, None when it shows
\* "Configuration Error".
ResolveGnubase(plat, env) ==
    IF ~PyNot(EnvGet(env, "GNUBASE", None)) THEN env["GNUBASE"]
    ELSE IF StartsWith(plat, "win") THEN DefaultWindows
    ELSE IF StartsWith(plat, "darwin") \/ StartsWith(plat, "linux")
         THEN DefaultUnix
    ELSE None

\* The environment with the existing search paths ahead of the toolchain's.
SubprocessEnv_ExistingFirst(plat, env, gnubase) ==
    [k \in EnvNames |->
        IF k = "GNUBASE" THEN gnubase
        ELSE IF k = "COBPATH"
        THEN EnvGet(env, "COBPATH", "") \o PathSep(plat)
             \o JoinPath(plat, JoinPath(plat, gnubase, "lib"), "gnucobol")
             \o PathSep(plat)
             \o JoinPath(plat, JoinPath(plat, gnubase, "lib"), "cobc")
        ELSE EnvGet(env, "PATH", "") \o PathSep(plat)
             \o JoinPath(plat, gnubase, "bin")]

\* The environment handed to the compiler.
SubprocessEnv(plat, env, gnubase) ==
    [k \in EnvNames |->
        IF k = "GNUBASE" THEN gnubase
        ELSE IF k = "COBPATH"
        THEN JoinPath(plat, JoinPath(plat, gnubase, "lib"), "gnucobol")
             \o PathSep(plat)
             \o JoinPath(plat, JoinPath(plat, gnubase, "lib"), "cobc")
             \o PathSep(plat) \o EnvGet(env, "COBPATH", "")
        ELSE JoinPath(plat, gnubase, "bin") \o PathSep(plat)
             \o EnvGet(env, "PATH", "")]

CobcExecutable(plat) ==
    IF StartsWith(plat, "win") THEN "cobc" \o ".exe" ELSE "cobc"

CompileCommand(plat, gnubase, exe_path, source) ==
    <<JoinPath(plat, JoinPath(plat, gnubase, "bin"), CobcExecutable(plat)),
      "-x", "-o", exe_path, source>>

\* What subprocess.run can do: return a completed process with its exit
\* status and captured stderr, raise FileNotFoundError, or raise another
\* exception.
Exited(rc, err) ==
    [kind |-> "exit", returncode |-> rc, stderr |-> err, text |-> ""]
Raised(kind, msg) ==
    [kind |-> kind, returncode |-> 0, stderr |-> "", text |-> msg]
SpawnOutcomes ==
    {Exited(0, ""), Exited(0, "warning: unused"), Exited(1, "E: syntax error"),
     Exited(-9, ""),
     Raised("FileNotFoundError", "[Errno 2] No such file or directory"),
     Raised("Exception", "[Errno 13] Permission denied")}

\* The report with `process.returncode > 0` as the test for a failure.
CompileReport_PositiveFails(w, out) ==
    IF out.kind = "exit"
    THEN IF ~(out.returncode > 0)
         THEN MessageBox(ShowMessage(w, "Compilation successful!"),
                         "information", "Success", "Compilation successful!")
         ELSE MessageBox(ShowMessage(w, "Compilation failed"),
                         "critical", "Error",
                         "Compilation failed:\n" \o out.stderr)
    ELSE IF out.kind = "FileNotFoundError"
    THEN MessageBox(w, "critical", "GnuCOBOL Not Found",
                    "Could not find the 'cobc' compiler.\n"
                    \o "Make sure GnuCOBOL is installed and in your system "
                    \o "PATH, or specify its full path.")
    ELSE MessageBox(ShowMessage(w, "Error during compilation"),
                    "critical", "Error",
                    "Could not compile file:\n" \o out.text)

\* The try/except of handle_compile_cobol around subprocess.run.
CompileReport(w, out) ==
    IF out.kind = "exit"
    THEN IF out.returncode = 0
         THEN MessageBox(ShowMessage(w, "Compilation successful!"),
                         "information", "Success", "Compilation successful!")
         ELSE MessageBox(ShowMessage(w, "Compilation failed"),
                         "critical", "Error",
                         "Compilation failed:\n" \o out.stderr)
    ELSE IF out.kind = "FileNotFoundError"
    THEN MessageBox(w, "critical", "GnuCOBOL Not Found",
                    "Could not find the 'cobc' compiler.\n"
                    \o "Make sure GnuCOBOL is installed and in your system "
                    \o "PATH, or specify its full path.")
    ELSE MessageBox(ShowMessage(w, "Error during compilation"),
                    "critical", "Error",
                    "Could not compile file:\n" \o out.text)

SubprocessRun(w, argv, env, out) ==
    [w EXCEPT !.spawned = Append(@, [argv |-> argv, env |-> env,
                                     outcome |-> out])]

\* The guard refusing a modified document as well.
CompileRefused_WhenModified(w) == PyNot(w.current_file) \/ w.modified

\* handle_compile_cobol without its `if not self.current_file` guard.
CompileRefused_Never(w) == FALSE

\* The guard `if not self.current_file` of handle_compile_cobol.
CompileRefused(w) == PyNot(w.current_file)

\* CobolIDE.handle_compile_cobol
HandleCompileCobol(w, plat, env, exe_sel, out) ==
    IF CompileRefused(w)
    THEN MessageBox(w, "warning", "Warning",
                    "Please save the file before compiling.")
    ELSE LET w1 == FileDialog(w, "Compile to Executable", exe_sel) IN
         IF PyNot(exe_sel) THEN w1
         ELSE LET gnubase == ResolveGnubase(plat, env) IN
              IF gnubase = None
              THEN MessageBox(w1, "critical", "Configuration Error",
                       "Unsupported operating system or GNUBASE not set.")
              ELSE CompileReport(
                       SubprocessRun(w1,
                           CompileCommand(plat, gnubase, exe_sel,
                                          w.current_file),
                           SubprocessEnv(plat, env, gnubase), out),
                       out)

(***************************************************************************)
(* The state machine.                                                      *)
(***************************************************************************)
\* The window after a handler run that produced w.
Commit(w) ==
    /\ current_file' = w.current_file
    /\ text' = w.text
    /\ modified' = w.modified
    /\ clean_text' = w.clean_text
    /\ hl_text' = w.document.text
    /\ hl_formats' = w.document.formats
    /\ hl_state' = w.document.state
    /\ hl_calls' = w.document.calls
    /\ title' = w.title
    /\ status' = w.status
    /\ fs' = w.fs
    /\ boxes' = w.boxes
    /\ dialogs' = w.dialogs
    /\ io' = w.io
    /\ spawned' = w.spawned

\* CobolIDE.__init__ / _setup_ui: the window as constructed.
InitWindow ==
    /\ current_file = None
    /\ text = <<>>
    /\ modified = FALSE
    /\ clean_text = <<>>
    /\ title = BaseTitle
    /\ status = "Ready"
    /\ visible = TRUE
    /\ op = "init"
    /\ reply = "none"
    /\ boxes = <<>>
    /\ dialogs = <<>>
    /\ io = <<>>
    /\ spawned = <<>>
    /\ close_event = "none"
    /\ saved_as = None
    /\ hl_text = << <<>> >>
    /\ hl_formats = << <<>> >>
    /\ hl_state = <<0>>
    /\ hl_calls = << <<>> >>

\* The environments the session behaviours are explored in: no variable set,
\* on a platform with a default toolchain root and on one without.
SessionPlatforms == {"linux", "cygwin"}
SessionEnvirons == {[k \in EnvNames |-> None]}

\* The window as constructed, over any file system.
Init ==
    /\ InitWindow
    /\ fs \in [Paths -> Contents \cup {NoFile}]
    /\ platform \in SessionPlatforms
    /\ environ \in SessionEnvirons

\* The window as constructed, on any platform and in any environment, over a
\* file system in which every path holds a program.
InitCompile ==
    /\ InitWindow
    /\ fs = [p \in Paths |-> Program(1)]
    /\ platform \in Platforms
    /\ environ \in Environs

\* What the user can pick in a file dialog: a path, or "" by dismissing it.
Selections == Paths \cup {""}
ExeSelections == ExePaths \cup {""}

\* The inputs a run of handle_save_file consumes when current_file is cf: the
\* "Save As" selection when there is no current file, and the outcome of the
\* write when there is a path to write to.  An input that is not consumed is
\* fixed ("" and "ok").
SaveInputs(cf) ==
    {i \in [sel : Selections, wo : WriteOutcomes] :
        /\ ~PyNot(cf) => i.sel = ""
        /\ (PyNot(cf) /\ i.sel = "") => i.wo = "ok"}

\* The inputs a run of handle_save_file_as consumes.
SaveAsInputs ==
    {i \in [sel : Selections, wo : WriteOutcomes] : i.sel = "" => i.wo = "ok"}

\* The inputs the unsaved-changes prompt consumes: the reply when the
\* document is modified, and the inputs of handle_save_file on Save.
PromptInputs ==
    {i \in [r : Replies, sel : Selections, wo : WriteOutcomes] :
        IF modified /\ i.r = "Save"
        THEN [sel |-> i.sel, wo |-> i.wo] \in SaveInputs(current_file)
        ELSE /\ i.sel = "" /\ i.wo = "ok"
             /\ ~modified => i.r = "Cancel"}

\* The inputs the rest of handle_open_file consumes after prompt inputs i:
\* the "Open COBOL File" selection when the handler gets that far, and the
\* outcome of the read when a file was selected.
OpenInputs(i) ==
    {j \in [osel : Selections, ro : ReadOutcomes] :
        /\ (modified /\ PromptAborts(PromptResult(i.r))) => j.osel = ""
        /\ j.osel = "" => j.ro = "ok"}

\* The inputs handle_compile_cobol consumes.
CompileInputs ==
    {i \in [exe_sel : ExeSelections, out : SpawnOutcomes] :
        \/ i.out = Exited(0, "")
        \/ /\ ~CompileRefused(World) /\ ~PyNot(i.exe_sel)
           /\ ResolveGnubase(platform, environ) # None}

\* The user edits the buffer (selects all of it and types or pastes over
\* it): every block of the text is highlighted, the document is modified.
Edit ==
    /\ visible
    /\ \E c \in Contents :
          \E w \in {EditDocument(World, SetPlainText(SplitLines(c)))} :
             Commit(w)
    /\ op' = "edit"
    /\ reply' = "none"
    /\ close_event' = "none"
    /\ UNCHANGED <<visible, platform, environ, saved_as>>

\* The user undoes the edits of a modified document.  (A step through the
\* undo history that leaves the document modified is an edit.)
Undo ==
    /\ visible
    /\ modified
    /\ \E w \in {UndoEdits(World)} : Commit(w)
    /\ op' = "undo"
    /\ reply' = "none"
    /\ close_event' = "none"
    /\ UNCHANGED <<visible, platform, environ, saved_as>>

New ==
    /\ visible
    /\ \E i \in PromptInputs :
          /\ \E w \in {HandleNewFile(World, i.r, i.sel, i.wo)} : Commit(w)
          /\ reply' = IF modified THEN i.r ELSE "none"
    /\ op' = "new"
    /\ close_event' = "none"
    /\ saved_as' = None
    /\ UNCHANGED <<visible, platform, environ>>

\* handle_open_file run by a user who gives the prompt one of the replies.
OpenWith(replies) ==
    /\ visible
    /\ \E i \in PromptInputs : \E j \in OpenInputs(i) :
          /\ modified => i.r \in replies
          /\ \E w \in {HandleOpenFile(World, i.r, i.sel, i.wo, j.osel, j.ro)} :
                Commit(w)
          /\ reply' = IF modified THEN i.r ELSE "none"
    /\ op' = "open"
    /\ close_event' = "none"
    /\ saved_as' = None
    /\ UNCHANGED <<visible, platform, environ>>

Open == OpenWith(Replies)

Save ==
    /\ visible
    /\ \E i \in SaveInputs(current_file) :
          \E w \in {HandleSaveFile(World, i.sel, i.wo)} : Commit(w)
    /\ op' = "save"
    /\ reply' = "none"
    /\ close_event' = "none"
    /\ UNCHANGED <<visible, platform, environ, saved_as>>

SaveAs ==
    /\ visible
    /\ \E i \in SaveAsInputs :
          /\ \E w \in {HandleSaveFileAs(World, i.sel, i.wo)} : Commit(w)
          /\ saved_as' = IF i.sel # "" /\ i.wo = "ok" THEN i.sel ELSE None
    /\ op' = "save_as"
    /\ reply' = "none"
    /\ close_event' = "none"
    /\ UNCHANGED <<visible, platform, environ>>

Compile ==
    /\ visible
    /\ \E i \in CompileInputs :
          \E w \in {HandleCompileCobol(World, platform, environ,
                                        i.exe_sel, i.out)} : Commit(w)
    /\ op' = "compile"
    /\ reply' = "none"
    /\ close_event' = "none"
    /\ saved_as' = None
    /\ UNCHANGED <<visible, platform, environ>>

\* The user closes the window (Exit action or window close button).
Close ==
    /\ visible
    /\ \E i \in PromptInputs :
          \E ce \in {CloseEvent(World, i.r, i.sel, i.wo)} :
          /\ Commit(ce.w)
          /\ reply' = IF modified THEN i.r ELSE "none"
          /\ close_event' = ce.event
          /\ visible' = (ce.event = "ignored")
    /\ op' = "close"
    /\ saved_as' = None
    /\ UNCHANGED <<platform, environ>>

Next == Edit \/ Undo \/ New \/ Open \/ Save \/ SaveAs \/ Compile \/ Close

Spec == Init /\ [][Next]_vars

\* The compile handler over every platform and environment: files are
\* opened, or the buffer is saved under a name, and compiled.
NextCompile == New \/ Open \/ SaveAs \/ Compile

SpecCompile == InitCompile /\ [][NextCompile]_vars

\* The characters typed in the model.
TypedChars == {"I", "F", " ", "\"", "*", ">"}

\* A keystroke that leaves document d.
Keystroke(key, d) ==
    /\ \E w \in {EditDocument(World, d)} : Commit(w)
    /\ op' = key
    /\ reply' = "none"
    /\ close_event' = "none"
    /\ UNCHANGED <<visible, platform, environ, saved_as>>

TypeChar ==
    /\ visible
    /\ DocSize(hl_text) < MaxDocLen
    /\ \E i \in 1..Len(hl_text) : \E k \in 0..Len(hl_text[i]) :
       \E c \in TypedChars :
          \E d \in {InsertChar(Document, i, k, c)} : Keystroke("type", d)

DeleteChar ==
    /\ visible
    /\ DocSize(hl_text) <= MaxDocLen
    /\ \E i \in 1..Len(hl_text) : \E k \in 1..Len(hl_text[i]) :
          \E d \in {RemoveChar(Document, i, k)} : Keystroke("delete", d)

TypeEnter ==
    /\ visible
    /\ DocSize(hl_text) < MaxDocLen
    /\ \E i \in 1..Len(hl_text) : \E k \in 0..Len(hl_text[i]) :
          \E d \in {SplitBlock(Document, i, k)} : Keystroke("enter", d)

DeleteBreak ==
    /\ visible
    /\ DocSize(hl_text) <= MaxDocLen
    /\ \E i \in 1..(Len(hl_text) - 1) :
          \E d \in {JoinBlocks(Document, i)} : Keystroke("join", d)

\* The lines of the files opened in the model.
ScenarioMove ==
    <<<<"M", "O", "V", "E", " ", "\"", "I", "F", "\"", " ", "T", "O", " ", "X">>>>
ScenarioTwoLines ==
    <<<<"M", "O", "V", "E", " ", "'", "a", "'", " ", "T", "O", " ", "B", ".", " ", "*", ">", " ", "s", "e", "t", " ", "b">>,
      <<"I", "F", " ", "B", " ", "=", " ", "'", "a", "'", " ", "T", "H", "E", "N", " ", "D", "I", "S", "P", "L", "A", "Y", " ", "B", ".">>>>
ScenarioIdentifiers ==
    <<<<"M", "Y", "-", "I", "F", "-", "V", "A", "R">>,
      <<"I", "F", "X", " ", "X", "I", "F">>,
      <<"E", "N", "D", "-", "I", "F">>>>
ScenarioComments ==
    <<<<" ", " ", "*", ">", " ", "I", "F", " ", "\"", "X", "\"", " ", "'", "Y", "'">>,
      <<"A", "D", "D", " ", "1", " ", "T", "O", " ", "X", " ", "*", ">", " ", "I", "F">>,
      <<"*", ">">>>>
ScenarioLiterals ==
    <<<<"D", "I", "S", "P", "L", "A", "Y", " ", "\"", "A", "\"", " ", "'", "B">>,
      <<"\"", "I", "T", "'", "S", "\"", " ", "'", "\"", "'", " ", "\"">>,
      <<"S", "T", "O", "P", " ", "'", "R", "U", "N">>>>
ScenarioWhiteSpace ==
    <<<<VerticalTab, "*", ">", " ", "x">>,
      <<"\t", "\f", "*", ">">>>>
ScenarioLines ==
    ScenarioMove \o ScenarioIdentifiers \o ScenarioComments
    \o ScenarioLiterals \o ScenarioWhiteSpace

\* The files of the editing sessions: the first path holds the document of
\* two lines, the second the other lines, any other path no file.
ScenarioFiles ==
    [p \in Paths |->
        IF p = SrcDir \o "prog1.cbl" THEN ToPlainText(ScenarioTwoLines)
        ELSE IF p = SrcDir \o "prog2.cbl" THEN ToPlainText(ScenarioLines)
        ELSE NoFile]

\* handle_open_file run by a user who does not have the changes saved.
OpenUnsaved == OpenWith({"Discard", "Cancel"})

\* The window as constructed, over the files of the editing sessions.
InitHighlight ==
    /\ InitWindow
    /\ fs = ScenarioFiles
    /\ platform = "linux"
    /\ environ \in SessionEnvirons

NextHighlight ==
    TypeChar \/ DeleteChar \/ TypeEnter \/ DeleteBreak \/ Undo \/ OpenUnsaved

SpecHighlight == InitHighlight /\ [][NextHighlight]_vars

(***************************************************************************)
(* Properties.  A primed log variable (op', reply', io', ...) describes    *)
(* the handler run that makes the step.                                    *)
(***************************************************************************)
\* The run wrote the buffer to a file successfully.
SaveSucceeded ==
    \E k \in 1..Len(io) : io[k].mode = "w" /\ io[k].result = "ok"

\* The run opened no file for writing.
NoWrite == \A k \in 1..Len(io) : io[k].mode # "w"

\* The run showed the unsaved-changes prompt.
Prompted == boxes # <<>> /\ boxes[1].title = "Unsaved Changes"

\* The session is the one new() leaves behind.
SessionReset == text = <<>> /\ current_file = None /\ ~modified

\* C1: on a dirty session, new() answered Discard leaves an empty buffer
\* with no path; open() answered Discard reaches the file selection, and a
\* selected file that is read replaces path and content; neither writes a
\* file.
C1_DiscardProceeds ==
    /\ (op = "new" /\ reply = "Discard") =>
          text = <<>> /\ current_file = None /\ NoWrite
    /\ (op = "open" /\ reply = "Discard") =>
          /\ NoWrite
          /\ dialogs # <<>>
          /\ dialogs[Len(dialogs)].title = "Open COBOL File"
          /\ \A k \in 1..Len(io) :
                (io[k].mode = "r" /\ io[k].result = "ok") =>
                    /\ current_file = io[k].path
                    /\ text = fs[io[k].path]

\* C2: when the prompt of new(), open() or exit is answered Save and the
\* save does not succeed, the buffer is not cleared or replaced, the path is
\* kept and the window stays open.
C2_SaveFailureKeepsBuffer ==
    [][(op' \in {"new", "open", "close"} /\ reply' = "Save" /\ ~SaveSucceeded')
          => /\ text' = text
             /\ current_file' = current_file
             /\ visible']_vars

\* C3: when the prompt of new(), open() or exit is answered Cancel, path,
\* content, dirty flag, title and file system are unchanged, no file dialog
\* is shown, no file is opened for reading or writing, and on exit the close
\* event is ignored and the window stays open.
C3_CancelAborts ==
    [][(op' \in {"new", "open", "close"} /\ reply' = "Cancel")
          => /\ UNCHANGED <<current_file, text, modified, title, fs>>
             /\ io' = <<>>
             /\ dialogs' = <<>>
             /\ spawned' = <<>>
             /\ visible'
             /\ op' = "close" => close_event' = "ignored"]_vars

C3_Witness ==
    /\ op = "close" /\ reply = "Cancel" /\ Prompted
    /\ close_event = "ignored" /\ visible
    /\ modified /\ text # <<>> /\ current_file # None

\* C4 as stated: right after a handler run whose last file operation
\* succeeded (an open, or a save with nothing after it) the document is
\* unmodified, the path is that file and the file holds the buffer; an edit
\* sets the modified flag; the flag is cleared only by a run that read or
\* wrote a file successfully or by new().
C4_DirtyFlagAsStated ==
    [][/\ (io' # <<>> /\ io'[Len(io')].result = "ok" /\ op' # "new") =>
             /\ ~modified'
             /\ current_file' = io'[Len(io')].path
             /\ fs'[current_file'] = text'
       /\ op' = "edit" => modified'
       /\ (modified /\ ~modified') =>
             \/ op' = "new"
             \/ \E k \in 1..Len(io') : io'[k].result = "ok"]_vars

\* C4: right after a handler run whose last file operation succeeded (an
\* open, or a save with nothing after it) the document is unmodified, the
\* path is that file and the file holds the buffer; an edit sets the
\* modified flag; the flag is cleared only by a run that read or wrote a
\* file successfully, by new(), or by stepping through the undo history
\* back to the text the document had when it was last unmodified.
C4_DirtyFlag ==
    [][/\ (io' # <<>> /\ io'[Len(io')].result = "ok" /\ op' # "new") =>
             /\ ~modified'
             /\ current_file' = io'[Len(io')].path
             /\ fs'[current_file'] = text'
       /\ op' = "edit" => modified'
       /\ (modified /\ ~modified') =>
             \/ op' = "new"
             \/ \E k \in 1..Len(io') : io'[k].result = "ok"
             \/ op' = "undo" /\ text' = clean_text /\ io' = <<>>
       /\ ~modified => clean_text = text]_vars

C4_Witness ==
    /\ op = "undo" /\ io = <<>>
    /\ ~modified /\ text # <<>>
    /\ current_file # None /\ fs[current_file] = text

\* C5: new() on a clean session, or on a dirty one whose prompt was
\* answered Discard or answered Save with a successful save, leaves empty
\* content, no path and a clean flag; in every other case it leaves path,
\* content and dirty flag unchanged.
C5_NewResetsOnlyWhenResolved ==
    [][op' = "new" =>
          IF ~modified \/ reply' = "Discard"
                \/ (reply' = "Save" /\ SaveSucceeded')
          THEN SessionReset'
          ELSE UNCHANGED session]_vars

\* C6: save() without a path writes nothing by itself: it asks for a path
\* with the Save As dialog, and writes (to that path only) when one is
\* given, leaving files and dirty flag alone when none is; save() with a
\* path asks nothing and writes the buffer to exactly that path.
C6_SaveNeedsPath ==
    [][op' = "save" =>
          IF PyNot(current_file)
          THEN /\ Len(dialogs') = 1 /\ dialogs'[1].title = "Save As"
               /\ IF dialogs'[1].selection = ""
                  THEN /\ io' = <<>>
                       /\ UNCHANGED <<fs, current_file, text, modified>>
                  ELSE /\ Len(io') = 1 /\ io'[1].mode = "w"
                       /\ io'[1].path = dialogs'[1].selection
                       /\ \A q \in Paths \ {io'[1].path} : fs'[q] = fs[q]
                       /\ io'[1].result = "ok" =>
                             fs'[io'[1].path] = text /\ text' = text
          ELSE /\ dialogs' = <<>>
               /\ Len(io') = 1 /\ io'[1].mode = "w"
               /\ io'[1].path = current_file
               /\ \A q \in Paths \ {current_file} : fs'[q] = fs[q]
               /\ io'[1].result = "ok" =>
                     fs'[current_file] = text /\ text' = text]_vars

C6_Witness ==
    /\ op = "save" /\ current_file = None /\ modified /\ text # <<>>
    /\ dialogs # <<>> /\ dialogs[1].selection = "" /\ io = <<>>

\* C7: a successful save_as(p) leaves the document unmodified with path p
\* and p holding the buffer; as long as only edits and saves follow, every
\* save() asks for no path and writes to p, and a write that succeeds clears
\* the modified flag, keeps path p and leaves the buffer in p.
C7_SaveAsThenSave ==
    [][/\ (op' = "save_as" /\ SaveSucceeded') =>
             /\ saved_as' = dialogs'[1].selection
             /\ saved_as' \in Paths
             /\ ~modified'
             /\ current_file' = saved_as'
             /\ fs'[saved_as'] = text'
       /\ (op' \in {"edit", "undo"} /\ saved_as # None) =>
             saved_as' = saved_as /\ current_file' = saved_as
       /\ (op' = "save" /\ saved_as # None) =>
             /\ dialogs' = <<>>
             /\ Len(io') = 1 /\ io'[1].mode = "w" /\ io'[1].path = saved_as
             /\ \A q \in Paths \ {saved_as} : fs'[q] = fs[q]
             /\ current_file' = saved_as
             /\ io'[1].result = "ok" =>
                   ~modified' /\ fs'[saved_as] = text']_vars

C7_Witness ==
    /\ op = "save" /\ saved_as \in Paths /\ SaveSucceeded
    /\ io[1].path = saved_as /\ current_file = saved_as
    /\ ~modified /\ text # <<>> /\ fs[saved_as] = text
    /\ \E q \in Paths \ {saved_as} : fs[q] # NoFile /\ fs[q] # text

\* C8: compile with no current file shows the warning, asks for no output
\* path and runs no process; a process is run only with a current file,
\* which is the source it is given.
C8_CompileNeedsPath ==
    /\ (op = "compile" /\ PyNot(current_file)) =>
          /\ spawned = <<>>
          /\ dialogs = <<>>
          /\ Len(boxes) = 1 /\ boxes[1].title = "Warning"
    /\ spawned # <<>> =>
          /\ op = "compile"
          /\ ~PyNot(current_file)
          /\ spawned[1].argv[Len(spawned[1].argv)] = current_file

C8_Witness ==
    /\ op = "compile" /\ current_file = None
    /\ title = BaseTitle \o " - Untitled"
    /\ boxes # <<>> /\ boxes[1].title = "Warning"

\* C9: a compile that runs the compiler runs it once and shows exactly one
\* message box: Success for exit status 0; for any other exit status Error
\* with the captured stderr; GnuCOBOL Not Found when the executable is not
\* found; Error with the exception text for any other exception.
C9_ResultMapping ==
    spawned # <<>> =>
        /\ Len(spawned) = 1
        /\ Len(boxes) = 1
        /\ LET out == spawned[1].outcome
               box == boxes[1]
           IN  /\ (out.kind = "exit" /\ out.returncode = 0) =>
                      /\ box.kind = "information" /\ box.title = "Success"
                      /\ status = "Compilation successful!"
               /\ (out.kind = "exit" /\ out.returncode # 0) =>
                      /\ box.kind = "critical" /\ box.title = "Error"
                      /\ box.text = "Compilation failed:\n" \o out.stderr
                      /\ status = "Compilation failed"
               /\ out.kind = "FileNotFoundError" =>
                      /\ box.kind = "critical"
                      /\ box.title = "GnuCOBOL Not Found"
               /\ out.kind = "Exception" =>
                      /\ box.kind = "critical" /\ box.title = "Error"
                      /\ box.text = "Could not compile file:\n" \o out.text

C9_Witness ==
    /\ spawned # <<>>
    /\ spawned[1].outcome = Exited(1, "E: syntax error")
    /\ boxes[1].text = "Compilation failed:\nE: syntax error"

\* C10: once a compile has its output path, the toolchain root is the
\* GNUBASE override when that is set and not empty, on any platform;
\* otherwise C:\GnuCOBOL on win32 and /usr/local on darwin and linux; on
\* another platform the run shows Configuration Error and runs no process.
C10_ToolchainRoot ==
    (op = "compile" /\ dialogs # <<>> /\ dialogs[1].selection # "") =>
        IF environ["GNUBASE"] \notin {None, ""}
        THEN spawned # <<>> /\ spawned[1].env["GNUBASE"] = environ["GNUBASE"]
        ELSE IF platform = "win32"
        THEN spawned # <<>> /\ spawned[1].env["GNUBASE"] = "C:\\GnuCOBOL"
        ELSE IF platform \in {"darwin", "linux"}
        THEN spawned # <<>> /\ spawned[1].env["GNUBASE"] = "/usr/local"
        ELSE /\ spawned = <<>>
             /\ Len(boxes) = 1 /\ boxes[1].title = "Configuration Error"

C10_Witness ==
    /\ op = "compile" /\ platform = "cygwin" /\ environ["GNUBASE"] = ""
    /\ dialogs # <<>> /\ dialogs[1].selection # ""
    /\ boxes # <<>> /\ boxes[1].title = "Configuration Error"

\* The run's file operations all failed, and there was at least one.
OnlyFailures ==
    io # <<>> /\ \A k \in 1..Len(io) : io[k].result # "ok"

\* The number of elements of sequence q that satisfy Test.
CountOf(q, Test(_)) == Cardinality({k \in 1..Len(q) : Test(q[k])})

IsWrite(x) == x.mode = "w"
IsRead(x) == x.mode = "r"
IsFailure(x) == x.result # "ok"
IsErrorBox(x) == x.kind = "critical" /\ x.title = "Error"

\* C17: a run of open, save or save as performs each file operation at most
\* once (no retry), reports each failed operation in exactly one Error box,
\* and, when every operation it performed failed, leaves path, content and
\* dirty flag as they were: a failed save as does not change the path, a
\* failed save leaves the document modified.
C17_FailureAtomic ==
    [][op' \in {"open", "save", "save_as"} =>
          /\ CountOf(io', IsWrite) <= 1
          /\ CountOf(io', IsRead) <= 1
          /\ CountOf(boxes', IsErrorBox) = CountOf(io', IsFailure)
          /\ OnlyFailures' => UNCHANGED session]_vars

C17_Witness ==
    /\ op = "save_as"
    /\ Len(io) = 1 /\ io[1].result = "write_error"
    /\ current_file \notin {None, io[1].path}
    /\ fs[io[1].path] = <<>>
    /\ modified /\ text # <<>>
    /\ Len(boxes) = 1 /\ boxes[1].title = "Error"

\* C19: the compiler is run as <root>/bin/cobc (cobc.exe on Windows) with
\* the arguments -x, -o, the chosen output path and the current file; its
\* COBPATH is <root>/lib/gnucobol, <root>/lib/cobc and the existing value, in
\* that order, its PATH is <root>/bin and the existing value (an unset
\* variable counts as empty), joined with the platform's separators; the
\* environment of the process itself is left as it is.
C19_CompileRequest ==
    [][(op' = "compile" /\ spawned' # <<>>) =>
          LET win == platform = "win32"
              s == IF win THEN "\\" ELSE "/"
              ps == IF win THEN ";" ELSE ":"
              run == spawned'[1]
              root == run.env["GNUBASE"]
              old(k) == IF environ[k] = None THEN "" ELSE environ[k]
          IN  /\ run.argv = <<root \o s \o "bin" \o s
                                \o (IF win THEN "cobc.exe" ELSE "cobc"),
                              "-x", "-o", dialogs'[1].selection, current_file>>
              /\ run.env["COBPATH"] =
                     root \o s \o "lib" \o s \o "gnucobol" \o ps
                     \o root \o s \o "lib" \o s \o "cobc" \o ps
                     \o old("COBPATH")
              /\ run.env["PATH"] = root \o s \o "bin" \o ps \o old("PATH")
              /\ environ' = environ]_vars

C19_Witness ==
    /\ op = "compile" /\ spawned # <<>>
    /\ platform = "win32"
    /\ environ["COBPATH"] = "/opt/cobpath" /\ environ["GNUBASE"] = None
    /\ spawned[1].argv[1] = "C:\\GnuCOBOL\\bin\\cobc.exe"
    /\ spawned[1].env["COBPATH"] =
           "C:\\GnuCOBOL\\lib\\gnucobol;C:\\GnuCOBOL\\lib\\cobc;/opt/cobpath"

\* C20: a compile run, whatever it does, leaves path, content and dirty flag
\* as they are and opens no file; with a current file it goes on to the
\* output dialog whether or not the document is modified, and the source it
\* hands to the compiler is the current file.
C20_CompileObserves ==
    [][op' = "compile" =>
          /\ UNCHANGED session
          /\ UNCHANGED fs
          /\ io' = <<>>
          /\ current_file # None => dialogs' # <<>>
          /\ spawned' # <<>> => spawned'[1].argv[5] = current_file]_vars

C20_Witness ==
    /\ op = "compile" /\ spawned # <<>>
    /\ modified
    /\ fs[current_file] # text
    /\ spawned[1].argv[5] = current_file

(***************************************************************************)
(* Properties of the highlighter.                                          *)
(***************************************************************************)
Blocks == 1..Len(hl_text)

\* The spans of a block: the maximal runs of characters with one format
\* other than none, each with its offset, length and category.
Spans(f) ==
    {[start |-> ab[1] - 1, length |-> ab[2] - ab[1] + 1, category |-> f[ab[1]]] :
        ab \in {x \in (1..Len(f)) \X (1..Len(f)) :
                  /\ x[1] <= x[2]
                  /\ f[x[1]] # "none"
                  /\ \A p \in x[1]..x[2] : f[p] = f[x[1]]
                  /\ x[1] = 1 \/ f[x[1] - 1] # f[x[1]]
                  /\ x[2] = Len(f) \/ f[x[2] + 1] # f[x[1]]}}

Span(start, length, category) ==
    [start |-> start, length |-> length, category |-> category]

\* The characters of a COBOL identifier.
IdentChars == WordChars \cup {"-"}

\* Word w stands at offset s of t; it stands there as a whole word when the
\* characters next to it are not identifier characters.
Occurs(t, w, s) ==
    s + Len(w) <= Len(t) /\ SubSeq(t, s + 1, s + Len(w)) = w
WholeWord(t, w, s) ==
    /\ Occurs(t, w, s)
    /\ s = 0 \/ t[s] \notin IdentChars
    /\ s + Len(w) = Len(t) \/ t[s + Len(w) + 1] \notin IdentChars

\* The rule of keyword k marked the range of length n at offset s of block i.
KeywordMarked(i, k, s, n) ==
    \E c \in 1..Len(hl_calls[i]) :
        /\ hl_calls[i][c].rule = k /\ hl_calls[i][c].fmt = "keyword"
        /\ hl_calls[i][c].start = s /\ hl_calls[i][c].length = n

\* C11: wherever a keyword stands in a line, its rule marks exactly the
\* range of the word as Keyword when it stands there as a whole word, and
\* marks nothing when it is part of a longer identifier, a hyphenated one
\* such as MY-IF-VAR included.
C11_KeywordWholeWord ==
    \A i \in Blocks : \A k \in 1..Len(Keywords) :
        (\E p \in 1..Len(hl_text[i]) : hl_text[i][p] = Keywords[k][1]) =>
            \A s \in 0..Len(hl_text[i]) :
                Occurs(hl_text[i], Keywords[k], s) =>
                    (KeywordMarked(i, k, s, Len(Keywords[k]))
                        <=> WholeWord(hl_text[i], Keywords[k], s))

\* The offset of the first "*>" of t, or -1.
FirstMarker(t) ==
    LET at == {s \in 0..(Len(t) - 2) : t[s + 1] = "*" /\ t[s + 2] = ">"} IN
    IF at = {} THEN -1 ELSE CHOOSE s \in at : \A x \in at : s <= x

\* C12: in a line whose first "*>" has nothing but whitespace before it,
\* every character from the marker to the end of the line is Comment,
\* whatever keywords or literals are among them; in a line whose first "*>"
\* has a character other than whitespace before it, and in a line without
\* "*>", no character is Comment.
C12_CommentRule ==
    \A i \in Blocks :
        LET t == hl_text[i]
            m == FirstMarker(t)
        IN  IF m >= 0 /\ \A p \in 1..m : t[p] \in WhiteSpace
            THEN \A p \in (m + 1)..Len(t) : hl_formats[i][p] = "comment"
            ELSE \A p \in 1..Len(t) : hl_formats[i][p] # "comment"

C12_Witness ==
    /\ op = "open"
    /\ hl_text = ScenarioLines
    /\ SubSeq(hl_text, 5, 7) = ScenarioComments
    /\ \A p \in 1..Len(hl_text[5]) : hl_formats[5][p] = "comment"
    /\ \E c \in 1..Len(hl_calls[5]) : hl_calls[5][c].fmt = "keyword"
    /\ \E c \in 1..Len(hl_calls[5]) : hl_calls[5][c].fmt = "string"
    /\ \E c \in 1..Len(hl_calls[6]) : hl_calls[6][c].fmt = "keyword"
    /\ \A p \in 1..Len(hl_text[6]) : hl_formats[6][p] # "comment"
    /\ hl_text[11][1] = VerticalTab
    /\ \A p \in 1..Len(hl_text[11]) : hl_formats[11][p] = "comment"

\* The place of a setFormat call in the order of the rules: keywords, the
\* double-quoted literal, the single-quoted literal, the comment.
RuleClass(t, c) ==
    IF c.fmt = "keyword" THEN 1
    ELSE IF c.fmt = "string" THEN (IF t[c.start + 1] = "\"" THEN 2 ELSE 3)
    ELSE 4

\* C13: the setFormat calls of a line come in the order keywords, double-
\* quoted literals, single-quoted literals, comment, and each character
\* ends up with the format of the last call that covers it (none when no
\* call does); in MOVE "IF" TO X the range of "IF" is StringLiteral and MOVE
\* is Keyword.
C13_LastRuleWins ==
    \A i \in Blocks :
        LET t == hl_text[i]
            calls == hl_calls[i]
            covering(p) == {c \in 1..Len(calls) :
                               calls[c].start < p
                               /\ p <= calls[c].start + calls[c].length}
        IN  /\ \A c, d \in 1..Len(calls) :
                   c < d => RuleClass(t, calls[c]) <= RuleClass(t, calls[d])
            /\ \A p \in 1..Len(t) :
                   IF covering(p) = {} THEN hl_formats[i][p] = "none"
                   ELSE \E c \in covering(p) :
                           /\ \A d \in covering(p) : d <= c
                           /\ hl_formats[i][p] = calls[c].fmt
            /\ t = ScenarioMove[1] =>
                   Spans(hl_formats[i]) =
                       {Span(0, 4, "keyword"), Span(5, 4, "string")}

C13_Witness ==
    /\ op = "open"
    /\ hl_text = ScenarioLines
    /\ hl_text[1] = ScenarioMove[1]
    /\ \E c \in 1..Len(hl_calls[1]) :
          /\ hl_calls[1][c].fmt = "keyword"
          /\ hl_calls[1][c].start = 6 /\ hl_calls[1][c].length = 2
    /\ hl_formats[1][7] = "string" /\ hl_formats[1][8] = "string"

\* The ranges the rule of quote q marked in block i.
LiteralMarks(i, q) ==
    {[start |-> hl_calls[i][c].start, length |-> hl_calls[i][c].length] :
        c \in {c \in 1..Len(hl_calls[i]) :
                 /\ hl_calls[i][c].fmt = "string"
                 /\ hl_text[i][hl_calls[i][c].start + 1] = q}}

\* The literals of quote q in t, read from left to right: each runs from an
\* opening quote (the first, third, ... quote of the line) to the next
\* quote; a last opening quote without a later one opens no literal.
Literals(t, q) ==
    LET at == {p \in 1..Len(t) : t[p] = q}
        rank(p) == Cardinality({x \in at : x <= p})
    IN  {[start |-> ab[1] - 1, length |-> ab[2] - ab[1] + 1] :
            ab \in {x \in at \X at :
                      /\ x[1] < x[2]
                      /\ rank(x[1]) % 2 = 1
                      /\ rank(x[2]) = rank(x[1]) + 1}}

\* C14: each literal rule marks exactly the terminated literals of its
\* quote, each from its opening quote to the next such quote and no
\* further; an opening quote with no later quote of its kind on the line
\* gives no match, and nothing from it on is marked by that rule.
C14_UnterminatedLiteral ==
    \A i \in Blocks : \A q \in {"\"", "'"} :
        /\ LiteralMarks(i, q) = Literals(hl_text[i], q)
        /\ CountChar(hl_text[i], q) = 1 => LiteralMarks(i, q) = {}

C14_Witness ==
    /\ op = "open"
    /\ hl_text = ScenarioLines
    /\ SubSeq(hl_text, 8, 10) = ScenarioLiterals
    /\ LiteralMarks(8, "\"") = {[start |-> 8, length |-> 3]}
    /\ LiteralMarks(8, "'") = {}
    /\ hl_formats[8][13] = "none" /\ hl_formats[8][14] = "none"
    /\ CountChar(hl_text[10], "'") = 1
    /\ LiteralMarks(10, "'") = {}
    /\ \A p \in 6..9 : hl_formats[10][p] = "none"

\* C15 as stated: in the document MOVE 'a' TO B. *> set b / IF B = 'a' THEN
\* DISPLAY B. line 1 has MOVE as Keyword, 'a' as StringLiteral and *> set b
\* as Comment, line 2 has IF as Keyword, 'a' as StringLiteral and DISPLAY
\* as Keyword, and there are no other spans.
C15_ScenarioAsStated ==
    hl_text = ScenarioTwoLines =>
        /\ Spans(hl_formats[1]) =
               {Span(0, 4, "keyword"), Span(5, 3, "string"),
                Span(15, 8, "comment")}
        /\ Spans(hl_formats[2]) =
               {Span(0, 2, "keyword"), Span(7, 3, "string"),
                Span(16, 7, "keyword")}

\* C15: in the document MOVE 'a' TO B. *> set b / IF B = 'a' THEN DISPLAY B.
\* line 1 has MOVE as Keyword and 'a' as StringLiteral and no other span
\* (TO is uncategorized, and so is *> set b, whose marker does not begin the
\* line); line 2 has IF as Keyword, 'a' as StringLiteral and DISPLAY as
\* Keyword, and no other span.
C15_Scenario ==
    hl_text = ScenarioTwoLines =>
        /\ Spans(hl_formats[1]) =
               {Span(0, 4, "keyword"), Span(5, 3, "string")}
        /\ Spans(hl_formats[2]) =
               {Span(0, 2, "keyword"), Span(7, 3, "string"),
                Span(16, 7, "keyword")}

C15_Witness ==
    /\ hl_text = ScenarioTwoLines
    /\ op = "open"
    /\ hl_formats[1][16] = "none" /\ hl_formats[1][23] = "none"
    /\ hl_formats[2][17] = "keyword"

\* C16: an empty line gets no span and no setFormat call, and a line gets
\* the same calls and formats each time it is highlighted: two lines of a
\* document with the same text have the same formats, and a line of the
\* document after a change has the formats that a line with the same text
\* had before the change, whatever was highlighted in between.
C16_Deterministic ==
    [][/\ \A i \in 1..Len(hl_text') :
              hl_text'[i] = <<>> =>
                  Spans(hl_formats'[i]) = {} /\ hl_calls'[i] = <<>>
       /\ \A i, j \in 1..Len(hl_text') :
              hl_text'[i] = hl_text'[j] =>
                  hl_formats'[i] = hl_formats'[j] /\ hl_calls'[i] = hl_calls'[j]
       /\ \A i \in 1..Len(hl_text') : \A j \in Blocks :
              hl_text'[i] = hl_text[j] =>
                  hl_formats'[i] = hl_formats[j] /\ hl_calls'[i] = hl_calls[j]
      ]_vars

C16_Witness ==
    /\ op = "type"
    /\ hl_text = << <<"\"">>, <<>>, <<"\"">> >>
    /\ hl_formats[1] = <<"none">> /\ hl_formats[3] = <<"none">>
    /\ hl_formats[2] = <<>>

\* C18: highlighting always leaves the same block state, 0, on every block;
\* a change made within one line leaves the formats of every other line as
\* they were, and a line break typed or deleted leaves the formats of the
\* lines before and after it as they were.
C18_LineIndependence ==
    [][/\ \A i \in 1..Len(hl_state') : hl_state'[i] = 0
       /\ op' \in {"type", "delete"} =>
              \E i \in Blocks :
                  \A j \in Blocks \ {i} :
                      hl_text'[j] = hl_text[j] /\ hl_formats'[j] = hl_formats[j]
       /\ op' = "enter" =>
              \E i \in Blocks :
                  /\ \A j \in 1..(i - 1) : hl_formats'[j] = hl_formats[j]
                  /\ \A j \in (i + 1)..Len(hl_text) :
                         hl_formats'[j + 1] = hl_formats[j]
       /\ op' = "join" =>
              \E i \in Blocks :
                  /\ \A j \in 1..(i - 1) : hl_formats'[j] = hl_formats[j]
                  /\ \A j \in (i + 2)..Len(hl_text) :
                         hl_formats'[j - 1] = hl_formats[j]
      ]_vars

C18_Witness ==
    /\ op = "type"
    /\ hl_text = << <<"\"", "\"">>, <<"\"">> >>
    /\ hl_formats[1] = <<"string", "string">>
    /\ hl_formats[2] = <<"none">>
    /\ hl_state = <<0, 0>>

====
